---- MODULE Spec2Model ----
(***************************************************************************)
(* Identity and authorization core of headplane: the capability model,     *)
(* the owner bootstrap on the users table, role upserts, OIDC-to-Headscale *)
(* user linking and the pure helpers they use.                             *)
(*                                                                         *)
(* The users table is a set of rows; every statement the code issues       *)
(* against it (insert, insert .. onConflictDoUpdate, insert ..             *)
(* onConflictDoNothing, update .. where, select count) is one atomic step, *)
(* and an `await` between two statements is a point where another request  *)
(* may run.                                                                *)
(***************************************************************************)
EXTENDS Integers, Sequences, FiniteSets, TLC

(***************************************************************************)
(* Bounds of the model.                                                    *)
(***************************************************************************)
\* ulid() calls (insert attempts) one behaviour may make
MaxId == 4
\* length of a providerId string
MaxStrLen == 3
\* length of a remote user listing handed to findMatchingUser
MaxHsUsers == 2

\* length of the Headscale API key listing
MaxKeys == 2
\* the latest instant of the clock and of an expiration
MaxTime == 2

\* SQL NULL / JavaScript undefined
NULL == "<null>"

\* OIDC subjects that log in
SubjectOrder == <<"s1", "s2", "s3">>
Subjects == {SubjectOrder[i] : i \in 1..Len(SubjectOrder)}

(***************************************************************************)
(* Capability model (~/server/web/roles, imported by every source file but *)
(* not itself part of the sources at hand; written from the specification, *)
(* section 4.1 and section 8).                                             *)
(***************************************************************************)
RECURSIVE Pow2(_)
Pow2(n) == IF n = 0 THEN 1 ELSE 2 * Pow2(n - 1)

\* bitwise AND of two naturals
RECURSIVE BitAnd(_, _)
BitAnd(a, b) ==
    IF a = 0 \/ b = 0 THEN 0
    ELSE (IF a % 2 = 1 /\ b % 2 = 1 THEN 1 ELSE 0) + 2 * BitAnd(a \div 2, b \div 2)

\* bitwise OR of the naturals of a set of distinct powers of two: their sum
RECURSIVE BitOrAll(_)
BitOrAll(S) ==
    IF S = {} THEN 0
    ELSE LET x == CHOOSE y \in S : TRUE IN x + BitOrAll(S \ {x})

CapabilityNames ==
    <<"ui_access", "read_policy", "read_machines", "read_users",
      "generate_authkeys", "generate_own_authkeys", "owner">>

\* each capability is a distinct power-of-two flag
Capabilities ==
    [c \in {CapabilityNames[i] : i \in 1..Len(CapabilityNames)} |->
        Pow2((CHOOSE i \in 1..Len(CapabilityNames) : CapabilityNames[i] = c) - 1)]

CapSet == DOMAIN Capabilities

RoleNames == {"owner", "admin", "network_admin", "it_admin", "auditor", "member"}

\* mutation: auditor is given every capability short of the owner flag
RoleCaps_auditorAll(role) ==
    IF role = "member" THEN {}
    ELSE IF role = "owner" THEN CapSet
    ELSE CapSet \ {"owner"}

RoleCaps(role) ==
    CASE role = "owner" -> CapSet
      [] role = "admin" -> CapSet \ {"owner"}
      [] role = "network_admin" ->
            {"ui_access", "read_policy", "read_machines", "read_users",
             "generate_authkeys", "generate_own_authkeys"}
      [] role = "it_admin" ->
            {"ui_access", "read_policy", "read_machines", "read_users",
             "generate_authkeys", "generate_own_authkeys"}
      [] role = "auditor" ->
            {"ui_access", "read_policy", "read_machines", "read_users",
             "generate_own_authkeys"}
      [] role = "member" -> {}

\* total mapping from each role of the closed set to its bitmask
Roles == [role \in RoleNames |-> BitOrAll({Capabilities[c] : c \in RoleCaps(role)})]

hasCapability(role, capability) ==
    BitAnd(Roles[role], Capabilities[capability]) # 0

(***************************************************************************)
(* The users table and the statements issued against it.                   *)
(***************************************************************************)
VARIABLES
    users,       \* the rows of the users table
    nextId,      \* the number of ulid() calls made so far
    last,        \* history: the last operation, its subject and the table before it
    firstSub,    \* history: the subject of the first login (NULL before it)
    pureLogins,  \* history: TRUE while nothing but logins has touched the table
    pc,          \* concurrent logins: where each request stands
    ownerCount,  \* concurrent logins: each request's local ownerCount
    written,     \* history: per subject, the bitmask of the latest write (none: {})
    hsUsers,     \* the Headscale user listing, in listing order
    call,        \* the last call of a pure helper: its arguments and result
    loader,      \* the pre-auth key listing: its inputs, progress and output
    page         \* the auth-keys page: its key, filters and filtered keys

vars == <<users, nextId, last, firstSub, pureLogins, pc, ownerCount,
          written, hsUsers, call, loader, page>>

dbVars == <<users, nextId>>
histVars == <<last, firstSub, pureLogins>>
concVars == <<pc, ownerCount>>

NoOp == [op |-> "none", sub |-> NULL, pre |-> {}]
NoCall == [fn |-> "none"]

\* the parts of the state a family of operations does not use, at rest
IdleDb == users = {} /\ nextId = 0
IdleHist == last = NoOp /\ firstSub = NULL /\ pureLogins = TRUE
IdleConc == pc = [s \in Subjects |-> "none"] /\ ownerCount = [s \in Subjects |-> 0]
IdleWritten == written = [s \in Subjects |-> {}]
IdleHs == hsUsers = <<>>
IdleCall == call = NoCall /\ loader = NoCall /\ page = NoCall

\* the row `insert(users).values({...})` builds; columns left out take the
\* schema's defaults (onboarded 0, headscale_user_id NULL)
Row(id, sub, caps, onboarded, hsid) ==
    [id |-> id, sub |-> sub, caps |-> caps, onboarded |-> onboarded,
     headscale_user_id |-> hsid]

\* a UNIQUE (sub) or PRIMARY KEY (id) constraint would be violated
Conflicts(tbl, row) == \E r \in tbl : r.sub = row.sub \/ r.id = row.id

\* insert(users).values(row): fails on a conflict and leaves the table as it was
Insert(tbl, row) == IF Conflicts(tbl, row) THEN tbl ELSE tbl \cup {row}

\* mutation: the conflict clause does nothing instead of setting caps
InsertOnConflictDoUpdate_nothing(tbl, row, caps) ==
    IF \E r \in tbl : r.sub = row.sub THEN tbl ELSE tbl \cup {row}

\* mutation: no conflict is detected and a second row is written
InsertOnConflictDoUpdate_duplicate(tbl, row, caps) == tbl \cup {row}

\* mutation: the conflicting row is replaced by the attempted row
InsertOnConflictDoUpdate_replace(tbl, row, caps) ==
    {r \in tbl : r.sub # row.sub} \cup {row}

\* insert(users).values(row).onConflictDoUpdate({target: users.sub, set: {caps}})
InsertOnConflictDoUpdate(tbl, row, caps) ==
    IF \E r \in tbl : r.sub = row.sub
    THEN {IF r.sub = row.sub THEN [r EXCEPT !.caps = caps] ELSE r : r \in tbl}
    ELSE tbl \cup {row}

\* mutation: the conflict clause overwrites caps with the attempted row's
InsertOnConflictDoNothing_update(tbl, row) ==
    IF Conflicts(tbl, row)
    THEN {IF r.sub = row.sub THEN [r EXCEPT !.caps = row.caps] ELSE r : r \in tbl}
    ELSE tbl \cup {row}

\* insert(users).values(row).onConflictDoNothing()
InsertOnConflictDoNothing(tbl, row) ==
    IF Conflicts(tbl, row) THEN tbl ELSE tbl \cup {row}

\* mutation: the where clause compares with the wrong role
countOwners_member(tbl) == Cardinality({r \in tbl : r.caps = Roles["member"]})

\* select count(*) from users where caps = Roles.owner
countOwners(tbl) == Cardinality({r \in tbl : r.caps = Roles["owner"]})

RowsOf(tbl, sub) == {r \in tbl : r.sub = sub}

(***************************************************************************)
(* Owner bootstrap, logins one after another (simulateOidcLogin awaited).  *)
(***************************************************************************)
\* the table after the insert of a login whose count of owners was n, with
\* ulid() = id: the two branches of `if (needsOwner)`
upsertAfterCount(tbl, id, subject, n) ==
    LET needsOwner == n = 0
    IN  IF needsOwner
        THEN InsertOnConflictDoUpdate(
                 tbl, Row(id, subject, Roles["owner"], FALSE, NULL), Roles["owner"])
        ELSE InsertOnConflictDoNothing(
                 tbl, Row(id, subject, Roles["member"], FALSE, NULL))

\* the table after one whole simulateOidcLogin(db, subject) that no other
\* statement interleaves with
simulateOidcLogin(tbl, id, subject) ==
    upsertAfterCount(tbl, id, subject, countOwners(tbl))

InitSeq == IdleDb /\ IdleHist /\ IdleConc /\ IdleWritten /\ IdleHs /\ IdleCall

Login(s) ==
    /\ nextId < MaxId
    /\ users' = simulateOidcLogin(users, nextId, s)
    /\ nextId' = nextId + 1
    /\ last' = [op |-> "login", sub |-> s, pre |-> users]
    /\ firstSub' = IF firstSub = NULL THEN s ELSE firstSub
    /\ UNCHANGED <<pureLogins, concVars, written, hsUsers, call, loader, page>>

\* the tests' direct insert of a member row (onboarded: false)
InsertMember(s) ==
    /\ nextId < MaxId
    /\ RowsOf(users, s) = {}
    /\ users' = Insert(users, Row(nextId, s, Roles["member"], FALSE, NULL))
    /\ nextId' = nextId + 1
    /\ last' = [op |-> "insert", sub |-> s, pre |-> users]
    /\ pureLogins' = FALSE
    /\ UNCHANGED <<firstSub, concVars, written, hsUsers, call, loader, page>>

\* a row is removed from the table
RemoveUser(s) ==
    /\ RowsOf(users, s) # {}
    /\ users' = users \ RowsOf(users, s)
    /\ last' = [op |-> "remove", sub |-> s, pre |-> users]
    /\ pureLogins' = FALSE
    /\ UNCHANGED <<nextId, firstSub, concVars, written, hsUsers, call, loader, page>>

NextSeq ==
    \/ \E s \in Subjects : Login(s)
    \/ \E s \in Subjects : InsertMember(s)
    \/ \E s \in Subjects : RemoveUser(s)

SpecSeq == InitSeq /\ [][NextSeq]_vars

\* the (subject, bitmask) pairs a table holds
SubCaps(tbl) == {<<r.sub, r.caps>> : r \in tbl}

\* C2: from an empty table and with nothing but logins run one after another,
\* the first subject to log in is stored as owner and every other stored
\* subject as member (0); the subject of the login just run is stored once.
C2_FirstOwnerLaterMember ==
    pureLogins =>
        /\ firstSub # NULL =>
              \E r \in users : r.sub = firstSub /\ r.caps = Roles["owner"]
        /\ \A r \in users : r.sub # firstSub => r.caps = 0
        /\ last.op = "login" => Cardinality(RowsOf(users, last.sub)) = 1

\* three distinct subjects have logged in, the last of them not the first
C2_Witness ==
    /\ pureLogins
    /\ last.op = "login"
    /\ last.sub # firstSub
    /\ RowsOf(last.pre, last.sub) = {}
    /\ Cardinality(users) = 3

\* the login just run found no owner row and a member row of its subject
OrphanedMemberLogin ==
    /\ last.op = "login"
    /\ countOwners(last.pre) = 0
    /\ \E r \in last.pre : r.sub = last.sub /\ r.caps = Roles["member"]

\* C3: a login by a subject with a member row, run while no row holds the
\* owner bitmask, turns exactly that row's bitmask into owner: the table
\* afterwards is the table before with that one row's caps replaced, so no
\* second row for the subject exists.
C3_OrphanedMemberPromoted ==
    OrphanedMemberLogin =>
        \E r \in last.pre :
            /\ r.sub = last.sub
            /\ users = (last.pre \ {r}) \cup {[r EXCEPT !.caps = Roles["owner"]]}

\* the promoted member logged in after the row of the first owner was removed
C3_Witness ==
    /\ OrphanedMemberLogin
    /\ firstSub # NULL
    /\ firstSub # last.sub
    /\ RowsOf(last.pre, firstSub) = {}
    /\ countOwners(users) = 1

\* the login just run found an owner row and a row of its own subject
ReturningLoginWithOwner ==
    /\ last.op = "login"
    /\ countOwners(last.pre) > 0
    /\ RowsOf(last.pre, last.sub) # {}

\* C4: a login by a subject that already has a row, run while an owner row
\* exists, changes no row's bitmask and adds or removes no row.
C4_ReturningLoginKeepsCaps ==
    ReturningLoginWithOwner =>
        /\ SubCaps(users) = SubCaps(last.pre)
        /\ Cardinality(users) = Cardinality(last.pre)

\* an existing member logged in again while another subject was owner
C4_Witness ==
    /\ ReturningLoginWithOwner
    /\ \E r \in users : r.sub = last.sub /\ r.caps = Roles["member"]
    /\ \E r \in users : r.sub # last.sub /\ r.caps = Roles["owner"]

(***************************************************************************)
(* Owner bootstrap, concurrent logins: each request runs countOwners, then *)
(* (after the await) its insert; the requests' statements interleave.      *)
(***************************************************************************)
\* the position of subject s in SubjectOrder, from 0
SubIndex(s) == (CHOOSE i \in 1..Len(SubjectOrder) : SubjectOrder[i] = s) - 1

\* a table with no owner row: member rows for some of the subjects
InitConc ==
    /\ \E M \in SUBSET Subjects :
          /\ users = {Row(SubIndex(s), s, Roles["member"], FALSE, NULL) : s \in M}
    /\ nextId = Cardinality(Subjects)
    /\ \E P \in SUBSET Subjects :
          /\ Cardinality(P) >= 2
          /\ pc = [s \in Subjects |-> IF s \in P THEN "start" ELSE "none"]
    /\ ownerCount = [s \in Subjects |-> 0]
    /\ IdleHist /\ IdleWritten /\ IdleHs /\ IdleCall

\* const ownerCount = await countOwners(db)
CountOwnersStep(p) ==
    /\ pc[p] = "start"
    /\ ownerCount' = [ownerCount EXCEPT ![p] = countOwners(users)]
    /\ pc' = [pc EXCEPT ![p] = "counted"]
    /\ UNCHANGED <<users, nextId, histVars, written, hsUsers, call, loader, page>>

\* if (needsOwner) await insert .. onConflictDoUpdate else await insert .. onConflictDoNothing
UpsertStep(p) ==
    /\ pc[p] = "counted"
    /\ users' = upsertAfterCount(users, nextId, p, ownerCount[p])
    /\ nextId' = nextId + 1
    /\ pc' = [pc EXCEPT ![p] = "done"]
    /\ UNCHANGED <<ownerCount, histVars, written, hsUsers, call, loader, page>>

NextConc ==
    \/ \E p \in Subjects : CountOwnersStep(p)
    \/ \E p \in Subjects : UpsertStep(p)

SpecConc == InitConc /\ [][NextConc]_vars

AllLoginsCompleted == \A p \in Subjects : pc[p] \in {"none", "done"}

\* C1: once every concurrent first login against a table with no owner row
\* has completed, at most one row holds the owner bitmask.
C1_AtMostOneOwner == AllLoginsCompleted => countOwners(users) <= 1

(***************************************************************************)
(* Role assignment: the upsert of reassignSubject.                         *)
(***************************************************************************)
\* roles the upsert is called with
UpsertRoles == {"admin", "auditor", "member"}


\* the table after reassignSubject's upsert of (subject, role) with ulid() = id
reassignSubject(tbl, id, subject, role) ==
    InsertOnConflictDoUpdate(
        tbl, Row(id, subject, Roles[role], FALSE, NULL), Roles[role])

InitUpsert == IdleDb /\ IdleHist /\ IdleConc /\ IdleWritten /\ IdleHs /\ IdleCall

Upsert(s, role) ==
    /\ nextId < MaxId
    /\ users' = reassignSubject(users, nextId, s, role)
    /\ nextId' = nextId + 1
    /\ written' = [written EXCEPT ![s] = {Roles[role]}]
    /\ last' = [op |-> "upsert", sub |-> s, pre |-> users]
    /\ UNCHANGED <<firstSub, pureLogins, concVars, hsUsers, call, loader, page>>

\* the tests' plain insert of a member row, onboarded or linked as they set it
InsertUser(s, onboarded, hsid) ==
    /\ nextId < MaxId
    /\ RowsOf(users, s) = {}
    /\ users' = Insert(users, Row(nextId, s, Roles["member"], onboarded, hsid))
    /\ nextId' = nextId + 1
    /\ written' = [written EXCEPT ![s] = {Roles["member"]}]
    /\ last' = [op |-> "insert", sub |-> s, pre |-> users]
    /\ UNCHANGED <<firstSub, pureLogins, concVars, hsUsers, call, loader, page>>

NextUpsert ==
    \/ \E s \in Subjects, role \in UpsertRoles : Upsert(s, role)
    \/ \E s \in Subjects, o \in BOOLEAN, h \in {NULL, "1"} : InsertUser(s, o, h)

SpecUpsert == InitUpsert /\ [][NextUpsert]_vars

\* C5: after any sequence of writes keyed by subject, the table holds exactly
\* one row for each subject ever written and none for the others, and the
\* row's bitmask is that of the latest write for the subject.
C5_OneRowLatestRole ==
    \A s \in Subjects :
        /\ written[s] = {} => RowsOf(users, s) = {}
        /\ written[s] # {} =>
              /\ Cardinality(RowsOf(users, s)) = 1
              /\ {r.caps : r \in RowsOf(users, s)} = written[s]

\* a subject was upserted at least twice, the last time with another role
C5_Witness ==
    /\ last.op = "upsert"
    /\ \E r \in last.pre :
          /\ r.sub = last.sub
          /\ r.caps = Roles["admin"]
          /\ r.onboarded = FALSE
    /\ written[last.sub] = {Roles["auditor"]}

\* the upsert just run found a row of its subject
UpsertOnExisting == last.op = "upsert" /\ RowsOf(last.pre, last.sub) # {}

\* C6: an upsert on an existing subject keeps the row's id, onboarded flag and
\* headscale_user_id, keeps a single row for the subject and leaves every
\* other row as it was.
C6_UpsertKeepsOtherColumns ==
    UpsertOnExisting =>
        /\ \A r \in RowsOf(last.pre, last.sub) :
              \A r2 \in RowsOf(users, last.sub) :
                  /\ r2.id = r.id
                  /\ r2.onboarded = r.onboarded
                  /\ r2.headscale_user_id = r.headscale_user_id
        /\ Cardinality(RowsOf(users, last.sub)) = 1
        /\ users \ RowsOf(users, last.sub) = last.pre \ RowsOf(last.pre, last.sub)

\* an onboarded, linked member was upserted to another role
C6_Witness ==
    /\ UpsertOnExisting
    /\ \E r \in last.pre, r2 \in users :
          /\ r.sub = last.sub /\ r2.sub = last.sub
          /\ r.onboarded = TRUE /\ r.headscale_user_id # NULL
          /\ r.caps = Roles["member"] /\ r2.caps = Roles["admin"]

(***************************************************************************)
(* Pure helpers: providerId subject extraction, Headscale user matching    *)
(* and the capability test. A string is the sequence of its characters.    *)
(***************************************************************************)
Alphabet == {"a", "b", "/"}

\* the strings of at most n characters
Strings(n) == UNION {[1..k -> Alphabet] : k \in 0..n}

\* JavaScript undefined where a string may stand: no string over Alphabet
undefined == <<NULL>>

\* the positions of s holding the character c
Positions(s, c) == {i \in 1..Len(s) : s[i] = c}

Min(S) == CHOOSE x \in S : \A y \in S : x <= y

\* s.split(sep) for a one-character separator: the segments between the
\* separators, empty ones included
RECURSIVE Split(_, _)
Split(s, sep) ==
    IF Positions(s, sep) = {} THEN <<s>>
    ELSE LET i == Min(Positions(s, sep))
         IN  <<SubSeq(s, 1, i - 1)>> \o Split(SubSeq(s, i + 1, Len(s)), sep)

\* mutation: the first element is taken (shift)
Pop_first(arr) == IF Len(arr) = 0 THEN undefined ELSE arr[1]

\* arr.pop(): the last element, undefined for an empty array
Pop(arr) == IF Len(arr) = 0 THEN undefined ELSE arr[Len(arr)]

\* providerId?.split("/").pop()
extractSubject(providerId) ==
    IF providerId = undefined THEN undefined ELSE Pop(Split(providerId, "/"))

\* a Headscale user as listed: the i-th has id "i"; providerId may be undefined
HsUser(i, providerId) == [id |-> ToString(i), providerId |-> providerId]

\* mutation: the last matching user is returned (findLast)
RECURSIVE findMatchingUser_last(_, _)
findMatchingUser_last(hs, oidcSubject) ==
    IF Len(hs) = 0 THEN {}
    ELSE IF extractSubject(hs[Len(hs)].providerId) = oidcSubject THEN {hs[Len(hs)]}
    ELSE findMatchingUser_last(SubSeq(hs, 1, Len(hs) - 1), oidcSubject)

\* hsUsers.find((u) => extractSubject(u.providerId) === oidcSubject): the set
\* holding the user found, empty for undefined
RECURSIVE findMatchingUser(_, _)
findMatchingUser(hs, oidcSubject) ==
    IF Len(hs) = 0 THEN {}
    ELSE IF extractSubject(hs[1].providerId) = oidcSubject THEN {hs[1]}
    ELSE findMatchingUser(Tail(hs), oidcSubject)

\* the providerId values of listed users and the OIDC subjects looked for
ListedProviderIds == {undefined} \cup Strings(2)
OidcSubjects == {<<>>, <<"a">>, <<"b">>}

HsUserLists ==
    UNION {{[i \in 1..n |-> HsUser(i, f[i])] : f \in [1..n -> ListedProviderIds]} :
           n \in 0..MaxHsUsers}

\* the strings of at most n characters over the characters of A
StringsOver(A, n) == UNION {[1..k -> A] : k \in 0..n}

\* mutation: a wildcard in the stored prefix matches the rest of the input
RECURSIVE prefixMatches_glob(_, _)
prefixMatches_glob(submitted, stored) ==
    IF Len(stored) = 0 THEN Len(submitted) = 0
    ELSE IF stored[1] = "*" THEN TRUE
    ELSE IF Len(submitted) = 0 THEN FALSE
    ELSE /\ stored[1] = submitted[1]
         /\ prefixMatches_glob(Tail(submitted), Tail(stored))

\* wildcard-tolerant equality of a submitted and a stored API key prefix,
\* compared character by character (specification, section 4.3 step 3)
RECURSIVE prefixMatches(_, _)
prefixMatches(submitted, stored) ==
    IF Len(submitted) # Len(stored) THEN FALSE
    ELSE IF Len(stored) = 0 THEN TRUE
    ELSE /\ (stored[1] = "*" \/ stored[1] = submitted[1])
         /\ prefixMatches(Tail(submitted), Tail(stored))

\* the characters of API key prefixes; "*" redacts a stored character
PrefixAlphabet == {"a", "b", "*"}

\* the calls the helpers are checked on
PendingCalls ==
    {[fn |-> "extractSubject", done |-> FALSE, providerId |-> p] :
        p \in Strings(MaxStrLen) \cup {undefined}}
    \cup {[fn |-> "findMatchingUser", done |-> FALSE, hsUsers |-> hs, oidcSubject |-> s] :
        hs \in HsUserLists, s \in OidcSubjects}
    \cup {[fn |-> "hasCapability", done |-> FALSE, role |-> r, capability |-> c] :
        r \in RoleNames, c \in CapSet}
    \cup {[fn |-> "prefixMatches", done |-> FALSE, submitted |-> x, stored |-> y] :
        x \in StringsOver(PrefixAlphabet, MaxStrLen),
        y \in StringsOver(PrefixAlphabet, MaxStrLen)}

InitPure ==
    /\ call \in PendingCalls
    /\ loader = NoCall /\ page = NoCall
    /\ IdleDb /\ IdleHist /\ IdleConc /\ IdleWritten /\ IdleHs

pureFrame == <<dbVars, histVars, concVars, written, hsUsers, loader, page>>

CallExtractSubject ==
    /\ call.fn = "extractSubject" /\ ~call.done
    /\ call' = [fn |-> call.fn, done |-> TRUE, providerId |-> call.providerId,
                result |-> extractSubject(call.providerId)]
    /\ UNCHANGED pureFrame

CallFindMatchingUser ==
    /\ call.fn = "findMatchingUser" /\ ~call.done
    /\ call' = [fn |-> call.fn, done |-> TRUE, hsUsers |-> call.hsUsers,
                oidcSubject |-> call.oidcSubject,
                result |-> findMatchingUser(call.hsUsers, call.oidcSubject)]
    /\ UNCHANGED pureFrame

CallHasCapability ==
    /\ call.fn = "hasCapability" /\ ~call.done
    /\ call' = [fn |-> call.fn, done |-> TRUE, role |-> call.role,
                capability |-> call.capability,
                result |-> hasCapability(call.role, call.capability)]
    /\ UNCHANGED pureFrame

CallPrefixMatches ==
    /\ call.fn = "prefixMatches" /\ ~call.done
    /\ call' = [fn |-> call.fn, done |-> TRUE, submitted |-> call.submitted,
                stored |-> call.stored,
                result |-> prefixMatches(call.submitted, call.stored)]
    /\ UNCHANGED pureFrame

NextPure ==
    \/ CallExtractSubject
    \/ CallFindMatchingUser
    \/ CallHasCapability
    \/ CallPrefixMatches

SpecPure == InitPure /\ [][NextPure]_vars

Returned(fn) == call.fn = fn /\ call.done

\* C7: hasCapability gives the entries of the role table: auditor has
\* generate_own_authkeys, read_machines, read_users and read_policy and lacks
\* generate_authkeys; owner, admin, it_admin and network_admin have
\* generate_authkeys; member's bitmask is 0 and member has no capability.
C7_RoleTable ==
    Returned("hasCapability") =>
        /\ (call.role = "auditor" /\ call.capability \in
                {"generate_own_authkeys", "read_machines", "read_users", "read_policy"})
              => call.result = TRUE
        /\ (call.role = "auditor" /\ call.capability = "generate_authkeys")
              => call.result = FALSE
        /\ (call.role \in {"owner", "admin", "it_admin", "network_admin"}
                /\ call.capability = "generate_authkeys")
              => call.result = TRUE
        /\ call.role = "member" => (call.result = FALSE /\ Roles[call.role] = 0)

\* auditor was asked for generate_authkeys
C7_Witness ==
    /\ Returned("hasCapability")
    /\ call.role = "auditor"
    /\ call.capability = "generate_authkeys"
    /\ call.result = FALSE

\* the substring of s after its last "/" (all of s when it holds none)
AfterLastSlash(s) ==
    LET slashes == {i \in 1..Len(s) : s[i] = "/"}
        from == IF slashes = {} THEN 1
                ELSE 1 + (CHOOSE i \in slashes : \A j \in slashes : j <= i)
    IN  [k \in 1..(Len(s) - from + 1) |-> s[from + k - 1]]

\* C8: extractSubject returns the substring after the last "/": the whole
\* string when it holds no "/", the empty string when it is empty or ends
\* with "/", and undefined for undefined.
C8_ExtractSubject ==
    Returned("extractSubject") =>
        LET p == call.providerId
        IN  /\ p = undefined => call.result = undefined
            /\ p # undefined =>
                  /\ call.result = AfterLastSlash(p)
                  /\ (\A i \in 1..Len(p) : p[i] # "/") => call.result = p
                  /\ (Len(p) = 0 \/ p[Len(p)] = "/") => call.result = <<>>

\* a providerId with a "/" in the middle gave the part after it
C8_Witness ==
    /\ Returned("extractSubject")
    /\ call.providerId = <<"a", "/", "b">>
    /\ call.result = <<"b">>

\* the linking key of a listed user equals subject s
KeyIs(u, s) == u.providerId # undefined /\ AfterLastSlash(u.providerId) = s

\* C9: matching returns the first listed user whose linking key equals the
\* OIDC subject, never a user without providerId, and nothing when the list
\* is empty or holds no user with that key.
C9_FirstMatch ==
    Returned("findMatchingUser") =>
        LET hs == call.hsUsers
            s == call.oidcSubject
            hits == {i \in 1..Len(hs) : KeyIs(hs[i], s)}
        IN  /\ hits = {} => call.result = {}
            /\ hits # {} =>
                  call.result = {hs[CHOOSE i \in hits : \A j \in hits : i <= j]}
            /\ \A u \in call.result : u.providerId # undefined

\* two listed users share the key and the first of them was returned
C9_Witness ==
    /\ Returned("findMatchingUser")
    /\ Len(call.hsUsers) = 2
    /\ KeyIs(call.hsUsers[1], call.oidcSubject)
    /\ KeyIs(call.hsUsers[2], call.oidcSubject)
    /\ call.result = {call.hsUsers[1]}

(***************************************************************************)
(* OIDC to Headscale user linking: the login flow of the linking tests,    *)
(* with the Headscale listing changing between logins.                     *)
(***************************************************************************)
\* update(users).set({headscale_user_id}).where(eq(users.sub, sub))
UpdateHeadscaleUserId(tbl, sub, hsid) ==
    {IF r.sub = sub THEN [r EXCEPT !.headscale_user_id = hsid] ELSE r : r \in tbl}

\* JavaScript truthiness of an optional string
Truthy(x) == x # NULL /\ x # ""

\* match?.id
MatchId(match) == IF match = {} THEN NULL ELSE (CHOOSE u \in match : TRUE).id

\* mutation: the update runs without the `if (headscaleUserId)` guard
simulateOidcLoginLinking_unguarded(tbl, id, oidcSubject, hs, integrateHeadscale) ==
    LET headscaleUserId ==
            IF integrateHeadscale THEN MatchId(findMatchingUser(hs, oidcSubject))
            ELSE NULL
        inserted == InsertOnConflictDoNothing(
            tbl, Row(id, oidcSubject, Roles["member"], FALSE, headscaleUserId))
    IN  UpdateHeadscaleUserId(inserted, oidcSubject, headscaleUserId)

\* mutation: the row is only inserted, an existing row is never updated
simulateOidcLoginLinking_noUpdate(tbl, id, oidcSubject, hs, integrateHeadscale) ==
    LET headscaleUserId ==
            IF integrateHeadscale THEN MatchId(findMatchingUser(hs, oidcSubject))
            ELSE NULL
    IN  InsertOnConflictDoNothing(
            tbl, Row(id, oidcSubject, Roles["member"], FALSE, headscaleUserId))

\* mutation: the listing is searched whatever integrateHeadscale says
simulateOidcLoginLinking_alwaysLink(tbl, id, oidcSubject, hs, integrateHeadscale) ==
    LET headscaleUserId == MatchId(findMatchingUser(hs, oidcSubject))
        inserted == InsertOnConflictDoNothing(
            tbl, Row(id, oidcSubject, Roles["member"], FALSE, headscaleUserId))
    IN  IF Truthy(headscaleUserId)
        THEN UpdateHeadscaleUserId(inserted, oidcSubject, headscaleUserId)
        ELSE inserted

\* the table after simulateOidcLogin(db, oidcSubject, hsUsers, integrateHeadscale)
\* of the linking tests, with ulid() = id
simulateOidcLoginLinking(tbl, id, oidcSubject, hs, integrateHeadscale) ==
    LET headscaleUserId ==
            IF integrateHeadscale THEN MatchId(findMatchingUser(hs, oidcSubject))
            ELSE NULL
        inserted == InsertOnConflictDoNothing(
            tbl, Row(id, oidcSubject, Roles["member"], FALSE, headscaleUserId))
    IN  IF Truthy(headscaleUserId)
        THEN UpdateHeadscaleUserId(inserted, oidcSubject, headscaleUserId)
        ELSE inserted

\* the subjects that log in and the Headscale listings they may meet
LinkSubjects == {<<"a">>, <<"b">>}
LinkProviderIds == {undefined, <<"a">>, <<"/", "a">>, <<"/", "b">>}
LinkListings ==
    {hs \in HsUserLists : \A i \in 1..Len(hs) : hs[i].providerId \in LinkProviderIds}

InitLink ==
    /\ IdleDb /\ IdleHist /\ IdleConc /\ IdleWritten /\ IdleCall
    /\ hsUsers \in LinkListings

LinkLogin(s, integrateHeadscale) ==
    /\ nextId < MaxId
    /\ users' = simulateOidcLoginLinking(users, nextId, s, hsUsers, integrateHeadscale)
    /\ nextId' = nextId + 1
    /\ last' = [op |-> "login", sub |-> s, pre |-> users,
                integrate |-> integrateHeadscale]
    /\ UNCHANGED <<firstSub, pureLogins, concVars, written, hsUsers, call, loader, page>>

\* Headscale users are created, removed or bound to an OIDC identity
RemoteChange(hs) ==
    /\ hs # hsUsers
    /\ hsUsers' = hs
    /\ last' = [op |-> "remote", sub |-> NULL, pre |-> users, integrate |-> FALSE]
    /\ UNCHANGED <<dbVars, firstSub, pureLogins, concVars, written, call, loader, page>>

NextLink ==
    \/ \E s \in LinkSubjects, i \in BOOLEAN : LinkLogin(s, i)
    \/ \E hs \in LinkListings : RemoteChange(hs)

SpecLink == InitLink /\ [][NextLink]_vars

\* the listing the last login saw holds no user whose linking key is s
NoListedMatch(s) == \A i \in 1..Len(hsUsers) : ~KeyIs(hsUsers[i], s)

\* C10: a login never clears a link: every row linked before the login is
\* still linked after it, and a login with linking disabled or with no
\* matching Headscale user leaves its subject's headscale_user_id as it was.
C10_LinkNeverCleared ==
    last.op = "login" =>
        /\ \A r \in last.pre : r.headscale_user_id # NULL =>
              \E r2 \in users :
                  r2.sub = r.sub /\ r2.id = r.id /\ r2.headscale_user_id # NULL
        /\ (~last.integrate \/ NoListedMatch(last.sub)) =>
              \A r \in RowsOf(last.pre, last.sub) :
                  \A r2 \in RowsOf(users, last.sub) :
                      r2.headscale_user_id = r.headscale_user_id

\* a linked user logged in, with linking enabled, while no Headscale user matched
C10_Witness ==
    /\ last.op = "login"
    /\ last.integrate
    /\ NoListedMatch(last.sub)
    /\ \E r \in RowsOf(users, last.sub) : r.headscale_user_id # NULL
    /\ \E r \in RowsOf(last.pre, last.sub) : r.headscale_user_id # NULL

\* the id of the first listed Headscale user whose linking key is s
FirstListedMatchId(s) ==
    LET hits == {i \in 1..Len(hsUsers) : KeyIs(hsUsers[i], s)}
    IN  hsUsers[CHOOSE i \in hits : \A j \in hits : i <= j].id

\* the login just run had linking enabled and met an unlinked row of its
\* subject while a matching Headscale user was listed
UnlinkedReturningLogin ==
    /\ last.op = "login"
    /\ last.integrate
    /\ ~NoListedMatch(last.sub)
    /\ \E r \in RowsOf(last.pre, last.sub) : r.headscale_user_id = NULL

\* C11: a local row created while no Headscale user matched is linked by the
\* first later login, with linking enabled, that finds a matching user
\* listed: its headscale_user_id becomes that user's id, in the same row.
C11_LinkSelfHeals ==
    UnlinkedReturningLogin =>
        \A r \in RowsOf(last.pre, last.sub) :
            \E r2 \in users :
                /\ r2.id = r.id /\ r2.sub = r.sub
                /\ r2.headscale_user_id = FirstListedMatchId(last.sub)

\* a row that was unlinked before the login is linked after it
C11_Witness ==
    /\ UnlinkedReturningLogin
    /\ \E r \in RowsOf(users, last.sub) : r.headscale_user_id # NULL

\* C12: with linking disabled a login neither sets nor changes
\* headscale_user_id (a new row is written unlinked, an existing row keeps
\* its value) even when a matching Headscale user is listed; with linking
\* enabled and a match listed, the subject's row holds the matched user's
\* id after the login.
C12_LinkingFlagDecides ==
    last.op = "login" =>
        /\ ~last.integrate =>
              \A r2 \in RowsOf(users, last.sub) :
                  IF RowsOf(last.pre, last.sub) = {}
                  THEN r2.headscale_user_id = NULL
                  ELSE r2 \in last.pre
        /\ (last.integrate /\ ~NoListedMatch(last.sub)) =>
              /\ RowsOf(users, last.sub) # {}
              /\ \A r2 \in RowsOf(users, last.sub) :
                    r2.headscale_user_id = FirstListedMatchId(last.sub)

\* a first login ran with linking disabled while a matching user was listed
C12_Witness ==
    /\ last.op = "login"
    /\ ~last.integrate
    /\ ~NoListedMatch(last.sub)
    /\ RowsOf(last.pre, last.sub) = {}
    /\ \E r \in RowsOf(users, last.sub) : r.headscale_user_id = NULL

\* stored position by position: a "*" or the submitted character
WildcardEqual(submitted, stored) ==
    /\ Len(submitted) = Len(stored)
    /\ \A i \in 1..Len(stored) : stored[i] = "*" \/ stored[i] = submitted[i]

\* C13: a submitted prefix matches a stored prefix iff both have the same
\* length and every stored position holds "*" or the submitted character;
\* prefixes of different length never match.
C13_WildcardPrefixMatch ==
    Returned("prefixMatches") =>
        /\ call.result = WildcardEqual(call.submitted, call.stored)
        /\ Len(call.submitted) # Len(call.stored) => call.result = FALSE

\* a stored prefix with a wildcard in the middle matched
C13_Witness ==
    /\ Returned("prefixMatches")
    /\ call.stored = <<"a", "*", "b">>
    /\ call.submitted = <<"a", "a", "b">>
    /\ call.result = TRUE

(***************************************************************************)
(* API key login (~/routes/auth/login/action, of which the sources at hand *)
(* hold the tests only; written from the specification, section 4.3).      *)
(* An expiration is a set: empty for null, else holding the instant.       *)
(***************************************************************************)
\* what loginAction returns and the calls it made on the way: `fetches`
\* counts getApiKeys calls, `sessions` lists the arguments of createSession
LoginResult(outcome, fetches, sessions) ==
    [outcome |-> outcome, fetches |-> fetches, sessions |-> sessions]

\* the part of the credential before its first "."
CredentialPrefix(api_key) == Split(api_key, ".")[1]

\* the listed keys whose stored prefix matches the submitted one
MatchingKeys(keys, prefix) ==
    {i \in 1..Len(keys) : prefixMatches(prefix, keys[i].prefix)}

\* mutation: the key listing is fetched before the credential is validated
loginAction_fetchFirst(api_key, keys, now) ==
    IF api_key = undefined THEN {LoginResult("Missing", 1, <<>>)}
    ELSE IF Len(api_key) = 0 THEN {LoginResult("Empty", 1, <<>>)}
    ELSE IF Len(CredentialPrefix(api_key)) = 0
    THEN {LoginResult(o, 1, <<>>) : o \in {"Missing", "Empty"}}
    ELSE LET matches == MatchingKeys(keys, CredentialPrefix(api_key))
         IN  IF matches = {} THEN {LoginResult("NotFound", 1, <<>>)}
             ELSE IF Cardinality(matches) > 1
             THEN {LoginResult(o, 1, <<>>) : o \in {"NotFound", "Malformed", "Expired"}}
             ELSE LET key == keys[CHOOSE i \in matches : TRUE]
                  IN  IF key.expiration = {}
                      THEN {LoginResult("Malformed", 1, <<>>)}
                      ELSE IF \E e \in key.expiration : e < now
                      THEN {LoginResult("Expired", 1, <<>>)}
                      ELSE {LoginResult("Success", 1, <<api_key>>)}

\* mutation: a key without expiration is taken as never expiring
loginAction_nullNeverExpires(api_key, keys, now) ==
    IF api_key = undefined THEN {LoginResult("Missing", 0, <<>>)}
    ELSE IF Len(api_key) = 0 THEN {LoginResult("Empty", 0, <<>>)}
    ELSE IF Len(CredentialPrefix(api_key)) = 0
    THEN {LoginResult(o, 0, <<>>) : o \in {"Missing", "Empty"}}
    ELSE LET matches == MatchingKeys(keys, CredentialPrefix(api_key))
         IN  IF matches = {} THEN {LoginResult("NotFound", 1, <<>>)}
             ELSE IF Cardinality(matches) > 1
             THEN {LoginResult(o, 1, <<>>) : o \in {"NotFound", "Malformed", "Expired"}}
             ELSE LET key == keys[CHOOSE i \in matches : TRUE]
                  IN  IF key.expiration = {}
                      THEN {LoginResult("Success", 1, <<api_key>>)}
                      ELSE IF \E e \in key.expiration : e < now
                      THEN {LoginResult("Expired", 1, <<>>)}
                      ELSE {LoginResult("Success", 1, <<api_key>>)}

\* mutation: the session is bound to the prefix, not to the raw credential
loginAction_sessionPrefix(api_key, keys, now) ==
    IF api_key = undefined THEN {LoginResult("Missing", 0, <<>>)}
    ELSE IF Len(api_key) = 0 THEN {LoginResult("Empty", 0, <<>>)}
    ELSE IF Len(CredentialPrefix(api_key)) = 0
    THEN {LoginResult(o, 0, <<>>) : o \in {"Missing", "Empty"}}
    ELSE LET matches == MatchingKeys(keys, CredentialPrefix(api_key))
         IN  IF matches = {} THEN {LoginResult("NotFound", 1, <<>>)}
             ELSE IF Cardinality(matches) > 1
             THEN {LoginResult(o, 1, <<>>) : o \in {"NotFound", "Malformed", "Expired"}}
             ELSE LET key == keys[CHOOSE i \in matches : TRUE]
                  IN  IF key.expiration = {}
                      THEN {LoginResult("Malformed", 1, <<>>)}
                      ELSE IF \E e \in key.expiration : e < now
                      THEN {LoginResult("Expired", 1, <<>>)}
                      ELSE {LoginResult("Success", 1, <<CredentialPrefix(api_key)>>)}

\* the results loginAction may give for a submitted api_key field, the key
\* listing getApiKeys returns and the clock; where the specification leaves
\* the category open (an empty prefix before a secret; several matching
\* keys) every failure it allows is a possible result
loginAction(api_key, keys, now) ==
    IF api_key = undefined THEN {LoginResult("Missing", 0, <<>>)}
    ELSE IF Len(api_key) = 0 THEN {LoginResult("Empty", 0, <<>>)}
    ELSE IF Len(CredentialPrefix(api_key)) = 0
    THEN {LoginResult(o, 0, <<>>) : o \in {"Missing", "Empty"}}
    ELSE LET matches == MatchingKeys(keys, CredentialPrefix(api_key))
         IN  IF matches = {} THEN {LoginResult("NotFound", 1, <<>>)}
             ELSE IF Cardinality(matches) > 1
             THEN {LoginResult(o, 1, <<>>) : o \in {"NotFound", "Malformed", "Expired"}}
             ELSE LET key == keys[CHOOSE i \in matches : TRUE]
                  IN  IF key.expiration = {}
                      THEN {LoginResult("Malformed", 1, <<>>)}
                      ELSE IF \E e \in key.expiration : e < now
                      THEN {LoginResult("Expired", 1, <<>>)}
                      ELSE {LoginResult("Success", 1, <<api_key>>)}

\* the api_key fields submitted: absent, or a prefix with or without a secret
SubmittedPrefixes == StringsOver({"a", "b"}, 2)
SubmittedApiKeys ==
    {undefined} \cup SubmittedPrefixes \cup {p \o <<".", "b">> : p \in SubmittedPrefixes}

\* the key listings of Headscale: prefixes, some redacted, with an expiration
StoredPrefixes == {<<"a">>, <<"*">>, <<"a", "b">>, <<"a", "*">>}
Expirations == {{}} \cup {{e} : e \in 0..MaxTime}
ApiKeys == [prefix : StoredPrefixes, expiration : Expirations]
ApiKeyLists == UNION {[1..n -> ApiKeys] : n \in 0..MaxKeys}

PendingLogin(k, ks, n) ==
    [fn |-> "loginAction", done |-> FALSE, api_key |-> k, keys |-> ks, now |-> n]

InitAuth ==
    /\ \E k \in SubmittedApiKeys, ks \in ApiKeyLists, n \in 0..MaxTime :
          call = PendingLogin(k, ks, n)
    /\ loader = NoCall /\ page = NoCall
    /\ IdleDb /\ IdleHist /\ IdleConc /\ IdleWritten /\ IdleHs

LoginAction ==
    /\ call.fn = "loginAction" /\ ~call.done
    /\ \E r \in loginAction(call.api_key, call.keys, call.now) :
          call' = [fn |-> call.fn, done |-> TRUE, api_key |-> call.api_key,
                   keys |-> call.keys, now |-> call.now, result |-> r]
    /\ UNCHANGED pureFrame

NextAuth == LoginAction

SpecAuth == InitAuth /\ [][NextAuth]_vars

\* the credential field is absent, empty, or starts with the "." that ends
\* the prefix
NoPrefixSubmitted ==
    \/ call.api_key = undefined
    \/ Len(call.api_key) = 0
    \/ call.api_key[1] = "."

\* the characters of the submitted credential before its first "."
SubmittedPrefix ==
    LET k == call.api_key
        dots == {i \in 1..Len(k) : k[i] = "."}
        n == IF dots = {} THEN Len(k)
             ELSE (CHOOSE i \in dots : \A j \in dots : i <= j) - 1
    IN  [i \in 1..n |-> k[i]]

\* C14: an absent credential field fails Missing, an empty one fails Empty
\* and an empty prefix fails as one of the two; in each case the key
\* listing was not fetched and no session was created.
C14_MissingBeforeFetch ==
    (Returned("loginAction") /\ NoPrefixSubmitted) =>
        /\ call.result.outcome \in {"Missing", "Empty"}
        /\ call.api_key = undefined => call.result.outcome = "Missing"
        /\ (call.api_key # undefined /\ Len(call.api_key) = 0)
              => call.result.outcome = "Empty"
        /\ call.result.fetches = 0
        /\ call.result.sessions = <<>>

\* a credential with a secret but an empty prefix was rejected
C14_Witness ==
    /\ Returned("loginAction")
    /\ call.api_key = <<".", "b">>
    /\ Len(call.keys) > 0
    /\ call.result.outcome \in {"Missing", "Empty"}

\* C15: for a non-empty submitted prefix the outcome is NotFound when no
\* stored prefix matches; with exactly one matching key it is Malformed when
\* the key has no expiration, else Expired when the expiration is in the
\* past, else Success; and Success needs exactly one matching key.
C15_OutcomeOrder ==
    (Returned("loginAction") /\ ~NoPrefixSubmitted) =>
        LET hits == {i \in 1..Len(call.keys) :
                        WildcardEqual(SubmittedPrefix, call.keys[i].prefix)}
            out == call.result.outcome
        IN  /\ hits = {} => out = "NotFound"
            /\ \A i \in hits : hits = {i} =>
                  out = IF call.keys[i].expiration = {} THEN "Malformed"
                        ELSE IF \A e \in call.keys[i].expiration : e < call.now
                        THEN "Expired"
                        ELSE "Success"
            /\ out = "Success" => Cardinality(hits) = 1
            /\ out \in {"NotFound", "Malformed", "Expired", "Success"}

\* the one matching key, listed second and redacted, had expired
C15_Witness ==
    /\ Returned("loginAction")
    /\ call.api_key = <<"a", "b", ".", "b">>
    /\ Len(call.keys) = 2
    /\ call.keys[1].prefix = <<"a">>
    /\ call.keys[2].prefix = <<"a", "*">>
    /\ call.result.outcome = "Expired"

\* C16: createSession is called only on success, then exactly once and with
\* the full raw credential; on every failure it is not called.
C16_SessionOnlyOnSuccess ==
    Returned("loginAction") =>
        IF call.result.outcome = "Success"
        THEN call.result.sessions = <<call.api_key>>
        ELSE call.result.sessions = <<>>

\* a credential with a secret authenticated against a redacted prefix
C16_Witness ==
    /\ Returned("loginAction")
    /\ call.api_key = <<"a", "b", ".", "b">>
    /\ call.result.outcome = "Success"
    /\ \E i \in 1..Len(call.keys) : call.keys[i].prefix = <<"a", "*">>
    /\ call.result.sessions = <<call.api_key>>

(***************************************************************************)
(* The pre-auth key listing: loader of the auth-keys overview route.       *)
(* A user is represented by its Headscale id, a key by its id and the id   *)
(* of its owning user (NULL for a tag-only key).                           *)
(***************************************************************************)
MaxPreAuthKeys == 2
MaxRuns == 2

ValidUserIds == {ToString(i) : i \in 1..MaxHsUsers}
UserIds == ValidUserIds \cup {""}

\* api.getUsers(): the users Headscale lists, each id at most once
UserLists ==
    {us \in UNION {[1..n -> UserIds] : n \in 0..Cardinality(UserIds)} :
        \A i, j \in 1..Len(us) : us[i] = us[j] => i = j}

PreAuthKey(id, user) == [id |-> id, user |-> user]

\* key.user?.id ?? null
KeyOwner(key) == key.user

Resolved(keys) == [ok |-> TRUE, keys |-> keys, error |-> NULL]
Rejected == [ok |-> FALSE, keys |-> <<>>, error |-> "rejected"]

\* what getAllPreAuthKeys answers: a rejection, or keys of any owners
BulkAnswers ==
    {Rejected} \cup
    {Resolved([i \in 1..Len(owner) |-> PreAuthKey(i, owner[i])]) :
        owner \in UNION {[1..n -> ValidUserIds \cup {NULL}] : n \in 0..MaxPreAuthKeys}}

\* what getPreAuthKeys(id) answers: a rejection, or the n keys of that user
UserAnswer(id, rejects, n) ==
    IF rejects THEN Rejected ELSE Resolved([i \in 1..n |-> PreAuthKey(i, id)])

filterUsersWithValidIds(us) == SelectSeq(us, LAMBDA u : u # "")

\* the try/catch around getAllPreAuthKeys: a rejection leaves allKeys null
tryGetAllPreAuthKeys_uncaught(answer) ==
    [threw |-> ~answer.ok, calls |-> 1,
     allKeys |-> IF answer.ok THEN {answer.keys} ELSE {}]

tryGetAllPreAuthKeys_retry(answer) ==
    [threw |-> FALSE, calls |-> IF answer.ok THEN 1 ELSE 2,
     allKeys |-> IF answer.ok THEN {answer.keys} ELSE {}]

\* calls: how many getAllPreAuthKeys calls the statement issues
tryGetAllPreAuthKeys(answer) ==
    [threw |-> FALSE, calls |-> 1,
     allKeys |-> IF answer.ok THEN {answer.keys} ELSE {}]

\* the Map built by the loop over allKeys; an absent entry is an empty list
RECURSIVE keysByUser(_)
keysByUser(allKeys) ==
    IF allKeys = <<>> THEN [o \in UserIds \cup {NULL} |-> <<>>]
    ELSE LET n == Len(allKeys)
             key == allKeys[n]
             map == keysByUser(SubSeq(allKeys, 1, n - 1))
         IN  [map EXCEPT ![KeyOwner(key)] = Append(@, key)]

Group(user, preAuthKeys) == [user |-> user, preAuthKeys |-> preAuthKeys]

\* the loop over users pushing the groups that have keys
RECURSIVE userGroups(_, _)
userGroups(map, us) ==
    IF us = <<>> THEN <<>>
    ELSE LET userKeys == map[Head(us)]
         IN  (IF Len(userKeys) > 0 THEN <<Group(Head(us), userKeys)>> ELSE <<>>)
             \o userGroups(map, Tail(us))

groupAllKeys_tagOnlyLast(allKeys, us) ==
    LET map == keysByUser(allKeys)
        tagOnly == map[NULL]
    IN  userGroups(map, us)
        \o (IF Len(tagOnly) > 0 THEN <<Group(NULL, tagOnly)>> ELSE <<>>)

\* the bulk branch: the tag-only group, then the groups of the users
groupAllKeys(allKeys, us) ==
    LET map == keysByUser(allKeys)
        tagOnly == map[NULL]
    IN  (IF Len(tagOnly) > 0 THEN <<Group(NULL, tagOnly)>> ELSE <<>>)
        \o userGroups(map, us)

\* an entry of the array Promise.all resolves to
FetchResult(settled, success, user, preAuthKeys, error) ==
    [settled |-> settled, success |-> success, user |-> user,
     preAuthKeys |-> preAuthKeys, error |-> error]

PendingResult == FetchResult(FALSE, FALSE, NULL, <<>>, NULL)

fetchUser_swallow(user, answer) ==
    FetchResult(TRUE, TRUE, user, answer.keys, NULL)

\* the try/catch around getPreAuthKeys(user.id)
fetchUser(user, answer) ==
    IF answer.ok
    THEN FetchResult(TRUE, TRUE, user, answer.keys, NULL)
    ELSE FetchResult(TRUE, FALSE, user, <<>>, answer.error)

recordResult_completionOrder(results, i, r) ==
    LET first == Min({j \in 1..Len(results) : ~results[j].settled})
    IN  [results EXCEPT ![first] = r]

\* Promise.all keeps each result at the position of its promise
recordResult(results, i, r) == [results EXCEPT ![i] = r]

\* results.filter(success).map(...) and results.filter(!success).map(...)
RECURSIVE successGroups(_)
successGroups(results) ==
    IF results = <<>> THEN <<>>
    ELSE (IF Head(results).success
          THEN <<Group(Head(results).user, Head(results).preAuthKeys)>>
          ELSE <<>>) \o successGroups(Tail(results))

RECURSIVE failures(_)
failures(results) ==
    IF results = <<>> THEN <<>>
    ELSE (IF ~Head(results).success
          THEN <<[user |-> Head(results).user, error |-> Head(results).error]>>
          ELSE <<>>) \o failures(Tail(results))

NoListing == [keys |-> <<>>, missing |-> <<>>]

\* the loader about to call getAllPreAuthKeys
LoaderStart(us, bulk, perUser, run, prev) ==
    [pc |-> "bulk", users |-> us, bulk |-> bulk, perUser |-> perUser,
     bulkCalls |-> 0,
     allKeys |-> {}, fetched |-> <<>>, results |-> <<>>, completed |-> <<>>,
     keys |-> <<>>, missing |-> <<>>, run |-> run, prev |-> prev]

InitKeys ==
    /\ IdleDb /\ IdleHist /\ IdleConc /\ IdleWritten /\ IdleHs
    /\ call = NoCall /\ page = NoCall
    /\ \E us \in UserLists, bulk \in BulkAnswers :
         \E failing \in IF bulk.ok THEN {ValidUserIds} ELSE SUBSET ValidUserIds,
            count \in IF bulk.ok THEN {[id \in ValidUserIds |-> 0]}
                                  ELSE [ValidUserIds -> 0..MaxPreAuthKeys] :
            loader = LoaderStart(us, bulk,
                        [id \in ValidUserIds |->
                            UserAnswer(id, id \in failing, count[id])],
                        1, NoListing)

keysFrame == <<dbVars, histVars, concVars, written, hsUsers, call, page>>

\* lines 33-59 and the start of the fan-out of line 65
GetAllPreAuthKeys ==
    /\ loader.pc = "bulk"
    /\ LET r == tryGetAllPreAuthKeys(loader.bulk)
           valid == filterUsersWithValidIds(loader.users)
       IN  loader' =
             IF r.threw
             THEN [loader EXCEPT !.pc = "threw", !.bulkCalls = @ + r.calls]
             ELSE IF r.allKeys # {}
             THEN [loader EXCEPT
                     !.pc = "done",
                     !.bulkCalls = @ + r.calls,
                     !.allKeys = r.allKeys,
                     !.keys = groupAllKeys(CHOOSE ks \in r.allKeys : TRUE, loader.users)]
             ELSE [loader EXCEPT
                     !.pc = "fanout",
                     !.bulkCalls = @ + r.calls,
                     !.fetched = valid,
                     !.results = [i \in 1..Len(valid) |-> PendingResult]]
    /\ UNCHANGED keysFrame

\* one getPreAuthKeys call settles, in any order among those in flight
SettleFetch(i) ==
    /\ loader.pc = "fanout"
    /\ i \in 1..Len(loader.fetched)
    /\ i \notin {loader.completed[j] : j \in 1..Len(loader.completed)}
    /\ LET user == loader.fetched[i]
       IN  loader' = [loader EXCEPT
                        !.results = recordResult(@, i, fetchUser(user, loader.perUser[user])),
                        !.completed = Append(@, i)]
    /\ UNCHANGED keysFrame

\* Promise.all resolves; lines 77-83
CollectResults ==
    /\ loader.pc = "fanout"
    /\ Len(loader.completed) = Len(loader.fetched)
    /\ loader' = [loader EXCEPT
                    !.pc = "done",
                    !.keys = successGroups(loader.results),
                    !.missing = failures(loader.results)]
    /\ UNCHANGED keysFrame

\* the route is loaded again while Headscale has not changed
Reload ==
    /\ loader.pc = "done"
    /\ loader.run < MaxRuns
    /\ loader' = LoaderStart(loader.users, loader.bulk, loader.perUser,
                             loader.run + 1,
                             [keys |-> loader.keys, missing |-> loader.missing])
    /\ UNCHANGED keysFrame

NextKeys ==
    \/ GetAllPreAuthKeys
    \/ \E i \in 1..MaxHsUsers : SettleFetch(i)
    \/ CollectResults
    \/ Reload

SpecKeys == InitKeys /\ [][NextKeys]_vars

BulkListed == loader.pc = "done" /\ loader.bulk.ok
FallbackListed == loader.pc = "done" /\ ~loader.bulk.ok

GroupOwners(groups) == [i \in 1..Len(groups) |-> groups[i].user]
OwnedBy(keys, owner) == SelectSeq(keys, LAMBDA k : KeyOwner(k) = owner)

\* C17: when the bulk fetch succeeds the listing is the tag-only group first,
\* if it has a key, then one group per supplied user that owns a key, in the
\* supplied order, each group holding exactly the bulk keys of its owner in
\* bulk order.
C17_BulkGrouping ==
    BulkListed =>
        LET bulkKeys == loader.bulk.keys
            owners == <<NULL>> \o loader.users
        IN  /\ GroupOwners(loader.keys)
                 = SelectSeq(owners, LAMBDA o : Len(OwnedBy(bulkKeys, o)) > 0)
            /\ \A i \in 1..Len(loader.keys) :
                 loader.keys[i].preAuthKeys = OwnedBy(bulkKeys, loader.keys[i].user)

\* a bulk answer with a tag-only key after a user's key, and keys of both users
C17_Witness ==
    /\ BulkListed
    /\ Len(loader.bulk.keys) = MaxPreAuthKeys
    /\ KeyOwner(loader.bulk.keys[1]) # NULL
    /\ KeyOwner(loader.bulk.keys[MaxPreAuthKeys]) = NULL
    /\ Len(loader.keys) = 2
    /\ loader.keys[1].user = NULL

\* C18: a rejected getAllPreAuthKeys never reaches the caller and leads to one
\* getPreAuthKeys call per user with a valid id; a resolved one leads to none.
C18_BulkFailureAbsorbed ==
    /\ loader.pc # "threw"
    /\ loader.pc \in {"fanout", "done"} =>
         IF loader.bulk.ok
         THEN loader.fetched = <<>> /\ loader.allKeys = {loader.bulk.keys}
         ELSE /\ loader.allKeys = {}
              /\ loader.fetched = filterUsersWithValidIds(loader.users)

C18_Witness ==
    /\ FallbackListed
    /\ Len(loader.fetched) = MaxHsUsers
    /\ Len(loader.keys) > 0

\* C19: in fallback mode, whichever getPreAuthKeys calls fail, the listing
\* returns, every user whose call succeeded has one group holding exactly the
\* keys that call returned, and missing holds one {user, error} entry per
\* failed user and none for a user whose call succeeded.
C19_FailuresIsolated ==
    /\ loader.pc # "threw"
    /\ FallbackListed =>
         \A n \in 1..Len(loader.fetched) :
            LET u == loader.fetched[n]
                groups == {i \in 1..Len(loader.keys) : loader.keys[i].user = u}
                entries == {i \in 1..Len(loader.missing) : loader.missing[i].user = u}
            IN  IF loader.perUser[u].ok
                THEN /\ Cardinality(groups) = 1
                     /\ \A i \in groups :
                          loader.keys[i].preAuthKeys = loader.perUser[u].keys
                     /\ entries = {}
                ELSE /\ groups = {}
                     /\ Cardinality(entries) = 1
                     /\ \A i \in entries :
                          loader.missing[i].error = loader.perUser[u].error

\* one user's call fails, another's returns keys
C19_Witness ==
    /\ FallbackListed
    /\ Len(loader.missing) = 1
    /\ \E i \in 1..Len(loader.keys) : Len(loader.keys[i].preAuthKeys) > 0

\* C20: in fallback mode the groups and the missing entries follow the
\* supplied user list whatever the order in which the calls settle, and a
\* second run against the same Headscale state returns the same listing.
C20_OrderAndIdempotence ==
    /\ FallbackListed =>
         /\ GroupOwners(loader.keys)
              = SelectSeq(filterUsersWithValidIds(loader.users),
                          LAMBDA u : loader.perUser[u].ok)
         /\ GroupOwners(loader.missing)
              = SelectSeq(filterUsersWithValidIds(loader.users),
                          LAMBDA u : ~loader.perUser[u].ok)
    /\ (loader.pc = "done" /\ loader.run > 1) =>
         [keys |-> loader.keys, missing |-> loader.missing] = loader.prev

\* the second run, whose calls settled in the reverse of the supplied order
C20_Witness ==
    /\ FallbackListed
    /\ loader.run = MaxRuns
    /\ Len(loader.completed) = MaxHsUsers
    /\ \A j \in 1..Len(loader.completed) :
         loader.completed[j] = Len(loader.completed) + 1 - j
    /\ Len(loader.keys) = MaxHsUsers

\* C21: every per-user group of the listing holds at least one key, in bulk
\* mode and in fallback mode alike.
C21_GroupsNonEmpty ==
    loader.pc = "done" =>
        \A i \in 1..Len(loader.keys) :
            loader.keys[i].user # NULL => Len(loader.keys[i].preAuthKeys) > 0

\* the fairness the event loop gives: every issued call settles and every
\* continuation that can run does run
SpecKeysLive ==
    /\ SpecKeys
    /\ WF_vars(GetAllPreAuthKeys)
    /\ \A i \in 1..MaxHsUsers : WF_vars(SettleFetch(i))
    /\ WF_vars(CollectResults)

Occurrences(s, x) == Cardinality({i \in 1..Len(s) : s[i] = x})

ExactlyOneCallEach ==
    /\ loader.bulkCalls = IF loader.pc = "bulk" THEN 0 ELSE 1
    /\ \A id \in UserIds :
         Occurrences(loader.fetched, id) =
            IF /\ loader.pc # "bulk"
               /\ ~loader.bulk.ok
               /\ id # ""
               /\ Occurrences(loader.users, id) > 0
            THEN 1 ELSE 0

\* C24: one run of the listing issues exactly one getAllPreAuthKeys call and,
\* only if that call fails, exactly one getPreAuthKeys call per user with a
\* valid id; once the issued calls have settled the run ends with its listing.
C24_NoRetryAndTerminates ==
    /\ []ExactlyOneCallEach
    /\ (loader.pc \in {"bulk", "fanout"}) ~> (loader.pc = "done")

\* a fallback run that fetched every user with a valid id, one of them failing
C24_Witness ==
    /\ FallbackListed
    /\ loader.bulkCalls = 1
    /\ Len(loader.fetched) = MaxHsUsers
    /\ Len(loader.users) > MaxHsUsers
    /\ Len(loader.missing) > 0

\* C30: in fallback mode every supplied user is in exactly one of keys and
\* missing: none is in both and none is absent from both.
C30_EveryUserInOneOutput ==
    FallbackListed =>
        \A n \in 1..Len(loader.users) :
            Occurrences(GroupOwners(loader.keys), loader.users[n])
              + Occurrences(GroupOwners(loader.missing), loader.users[n]) = 1

(***************************************************************************)
(* The auth-keys page: the filteredKeys memo over the loader's listing.    *)
(* An expiration and the time of the evaluation are instants 0..MaxTime.   *)
(***************************************************************************)
Statuses == {"all", "active", "expired", "reusable", "ephemeral"}
SelectableUsers == {"__headplane_all", "__headplane_tag_only"} \cup ValidUserIds

ListedKey(used, reusable, ephemeral, expiration) ==
    [used |-> used, reusable |-> reusable, ephemeral |-> ephemeral,
     expiration |-> expiration]

ListedKeys == {ListedKey(u, r, e, x) : u \in BOOLEAN, r \in BOOLEAN,
                                       e \in BOOLEAN, x \in 0..MaxTime}

\* the first filter: the groups of the selected user
userFilter(group, selectedUser) ==
    IF selectedUser = "__headplane_all" THEN TRUE
    ELSE IF selectedUser = "__headplane_tag_only" THEN group.user = NULL
    ELSE group.user = selectedUser

statusFilter_activeStrict(key, status, now) ==
    IF status = "all" THEN TRUE
    ELSE IF status = "ephemeral" THEN key.ephemeral
    ELSE IF status = "reusable" THEN key.reusable
    ELSE LET expiry == key.expiration
         IN  IF status = "expired"
             THEN IF key.used /\ ~key.reusable THEN TRUE ELSE expiry < now
             ELSE IF status = "active"
             THEN IF expiry <= now THEN FALSE
                  ELSE IF ~key.used THEN TRUE ELSE key.reusable
             ELSE FALSE

\* the second filter: the keys of the selected status
statusFilter(key, status, now) ==
    IF status = "all" THEN TRUE
    ELSE IF status = "ephemeral" THEN key.ephemeral
    ELSE IF status = "reusable" THEN key.reusable
    ELSE LET expiry == key.expiration
         IN  IF status = "expired"
             THEN IF key.used /\ ~key.reusable THEN TRUE ELSE expiry < now
             ELSE IF status = "active"
             THEN IF expiry < now THEN FALSE
                  ELSE IF ~key.used THEN TRUE ELSE key.reusable
             ELSE FALSE

RECURSIVE flatMapKeys(_)
flatMapKeys(groups) ==
    IF groups = <<>> THEN <<>>
    ELSE Head(groups).preAuthKeys \o flatMapKeys(Tail(groups))

filteredKeys(keys, selectedUser, status, now) ==
    SelectSeq(flatMapKeys(SelectSeq(keys, LAMBDA g : userFilter(g, selectedUser))),
              LAMBDA k : statusFilter(k, status, now))

\* the page as rendered: the selections and the memo they determine
Rendered(keys, now, selectedUser, status) ==
    [keys |-> keys, now |-> now, selectedUser |-> selectedUser,
     status |-> status,
     filteredKeys |-> filteredKeys(keys, selectedUser, status, now)]

InitPage ==
    /\ IdleDb /\ IdleHist /\ IdleConc /\ IdleWritten /\ IdleHs
    /\ call = NoCall /\ loader = NoCall
    /\ \E owner \in ValidUserIds \cup {NULL}, key \in ListedKeys, now \in 0..MaxTime :
          page = Rendered(<<Group(owner, <<key>>)>>, now, "__headplane_all", "active")

pageFrame == <<dbVars, histVars, concVars, written, hsUsers, call, loader>>

SetSelectedUser(u) ==
    /\ u # page.selectedUser
    /\ page' = Rendered(page.keys, page.now, u, page.status)
    /\ UNCHANGED pageFrame

SetStatus(s) ==
    /\ s # page.status
    /\ page' = Rendered(page.keys, page.now, page.selectedUser, s)
    /\ UNCHANGED pageFrame

NextPage ==
    \/ \E u \in SelectableUsers : SetSelectedUser(u)
    \/ \E s \in Statuses : SetStatus(s)

SpecPage == InitPage /\ [][NextPage]_vars

TheKey == page.keys[1].preAuthKeys[1]
GroupSelected == userFilter(page.keys[1], page.selectedUser)
Listed == Len(page.filteredKeys) > 0

\* C22: a key is listed as expired iff (used and not reusable) or
\* now >= expiration, and as active iff now < expiration and (not used or
\* reusable), for every key and every now, now = expiration included.
C22_StatusFormulas ==
    GroupSelected =>
        /\ page.status = "expired" =>
             (Listed <=> \/ TheKey.used /\ ~TheKey.reusable
                         \/ page.now >= TheKey.expiration)
        /\ page.status = "active" =>
             (Listed <=> /\ page.now < TheKey.expiration
                         /\ ~TheKey.used \/ TheKey.reusable)

\* C29: for every key and every now the key passes exactly one of the
\* active and the expired filter: switching between the two statuses always
\* changes whether the key is listed.
C29_ActiveExpiredPartition ==
    [][(/\ GroupSelected
        /\ page.selectedUser' = page.selectedUser
        /\ {page.status, page.status'} = {"active", "expired"})
       => (Len(page.filteredKeys) + Len(page.filteredKeys') = 1)]_vars

\* the expired filter was chosen for an unused key whose expiration is now
C29_Witness ==
    /\ GroupSelected
    /\ page.status = "expired"
    /\ ~TheKey.used
    /\ TheKey.expiration = page.now
    /\ ~Listed

(***************************************************************************)
(* The route actions: authKeysAction and the onboarding action.  A form    *)
(* field is NULL when absent; acl_tags and expiry, which the code parses,  *)
(* are strings of characters, undefined when absent.                       *)
(***************************************************************************)
FILE == "<file>"

Session(role, subject) == [role |-> role, subject |-> subject]

\* context.sessions.check(request, capability)
check(session, capability) == hasCapability(session.role, capability)

\* truthiness of an optional string of characters
TruthyChars_always(s) == TRUE

TruthyChars(s) == s # undefined /\ Len(s) > 0

RECURSIVE TrimStart(_)
TrimStart(s) == IF Len(s) > 0 /\ Head(s) = " " THEN TrimStart(Tail(s)) ELSE s

RECURSIVE TrimEnd(_)
TrimEnd(s) ==
    IF Len(s) > 0 /\ s[Len(s)] = " " THEN TrimEnd(SubSeq(s, 1, Len(s) - 1)) ELSE s

Trim(s) == TrimEnd(TrimStart(s))

\* aclTagsRaw.split(",").map((t) => t.trim()).filter((t) => t.length > 0)
parseAclTags(aclTagsRaw) ==
    LET parts == Split(aclTagsRaw, ",")
    IN  SelectSeq([i \in 1..Len(parts) |-> Trim(parts[i])], LAMBDA tag : Len(tag) > 0)

\* Number(s) for the strings submitted: the empty set stands for NaN
Number(s) ==
    IF s = <<>> \/ s = <<"0">> THEN {0}
    ELSE IF s = <<"1">> THEN {1}
    ELSE {}

\* the expiration passed on: the days added to the date of the request
expiryDate(expiry) == Number(Split(expiry, " ")[1])

\* api.getUsers(id): the listed users with that id
getUsers(remote, id) == SelectSeq(remote, LAMBDA u : u.id = id)

ApiCall(op, user, detail) == [op |-> op, user |-> user, detail |-> detail]

Response(status, body, thrown, calls, formRead, checked) ==
    [status |-> status, body |-> body, thrown |-> thrown, calls |-> calls,
     formRead |-> formRead, checked |-> checked]

\* a rejected api call reaches the framework as an error response
ApiError(calls, checked) == Response(500, "error", TRUE, calls, TRUE, checked)

permissionDenied_never(canGenerateAny, canGenerateOwn) == FALSE

\* line 14
permissionDenied(canGenerateAny, canGenerateOwn) ==
    ~canGenerateAny /\ ~canGenerateOwn

isOwnTarget_always(targetUser, session) == TRUE

\* targetUser.providerId?.split("/").pop() === session.user.subject
isOwnTarget(targetUser, session) ==
    extractSubject(targetUser.providerId) = session.subject

AuthKeyChecks == <<"generate_authkeys", "generate_own_authkeys">>

\* the self-service check of both branches: the response that ends the
\* request, or none when the target is the session's own user
selfServiceCheck(session, remote, user, apiOk, message) ==
    LET calls == <<ApiCall("getUsers", user, <<>>)>>
        found == getUsers(remote, user)
    IN  IF ~apiOk THEN {ApiError(calls, AuthKeyChecks)}
        ELSE IF Len(found) = 0
        THEN {Response(404, "User not found.", FALSE, calls, TRUE, AuthKeyChecks)}
        ELSE IF ~isOwnTarget(found[1], session)
        THEN {Response(403, message, TRUE, calls, TRUE, AuthKeyChecks)}
        ELSE {}

\* case "add_preauthkey"
addPreAuthKey(session, form, remote, apiOk, canGenerateAny, canGenerateOwn) ==
    LET user == IF Truthy(form.user_id) THEN form.user_id ELSE NULL
        aclTagsRaw == IF TruthyChars(form.acl_tags) THEN form.acl_tags ELSE <<>>
        aclTags == parseAclTags(aclTagsRaw)
        guarded == ~canGenerateAny /\ canGenerateOwn /\ Truthy(user)
        refused == IF guarded
                   THEN selfServiceCheck(session, remote, user, apiOk,
                            "You can only create pre-auth keys for your own user")
                   ELSE {}
        before == IF guarded THEN <<ApiCall("getUsers", user, <<>>)>> ELSE <<>>
        calls == Append(before,
                    ApiCall("createPreAuthKey", user,
                            <<form.ephemeral = "on", form.reusable = "on",
                              expiryDate(form.expiry), aclTags>>))
    IN  IF ~Truthy(user) /\ Len(aclTags) = 0
        THEN Response(400, "Must specify either a user or ACL tags.", FALSE, <<>>,
                      TRUE, AuthKeyChecks)
        ELSE IF refused # {} THEN CHOOSE r \in refused : TRUE
        ELSE IF ~TruthyChars(form.expiry)
        THEN Response(400, "Missing expiry in the form data.", FALSE, before,
                      TRUE, AuthKeyChecks)
        ELSE IF ~Truthy(form.reusable)
        THEN Response(400, "Missing reusable in the form data.", FALSE, before,
                      TRUE, AuthKeyChecks)
        ELSE IF ~Truthy(form.ephemeral)
        THEN Response(400, "Missing ephemeral in the form data.", FALSE, before,
                      TRUE, AuthKeyChecks)
        ELSE IF ~apiOk THEN ApiError(calls, AuthKeyChecks)
        ELSE Response(200, "success", FALSE, calls, TRUE, AuthKeyChecks)

\* case "expire_preauthkey"
expirePreAuthKey(session, form, remote, apiOk, canGenerateAny, canGenerateOwn) ==
    LET user == form.user_id
        guarded == ~canGenerateAny /\ canGenerateOwn
        refused == IF guarded
                   THEN selfServiceCheck(session, remote, user, apiOk,
                            "You can only expire pre-auth keys for your own user")
                   ELSE {}
        before == IF guarded THEN <<ApiCall("getUsers", user, <<>>)>> ELSE <<>>
        calls == Append(before, ApiCall("expirePreAuthKey", user, <<form.key>>))
    IN  IF ~Truthy(form.key)
        THEN Response(400, "Missing key in the form data.", FALSE, <<>>,
                      TRUE, AuthKeyChecks)
        ELSE IF ~Truthy(user)
        THEN Response(400, "Missing user_id in the form data.", FALSE, <<>>,
                      TRUE, AuthKeyChecks)
        ELSE IF refused # {} THEN CHOOSE r \in refused : TRUE
        ELSE IF ~apiOk THEN ApiError(calls, AuthKeyChecks)
        ELSE Response(200, "Pre-auth key expired", FALSE, calls, TRUE, AuthKeyChecks)

authKeysAction(session, form, remote, apiOk) ==
    LET canGenerateAny == check(session, "generate_authkeys")
        canGenerateOwn == check(session, "generate_own_authkeys")
    IN  IF permissionDenied(canGenerateAny, canGenerateOwn)
        THEN Response(403, "You do not have permission to manage pre-auth keys",
                      TRUE, <<>>, FALSE, AuthKeyChecks)
        ELSE IF ~Truthy(form.action_id)
        THEN Response(400, "Missing action_id in the form data.", TRUE, <<>>,
                      TRUE, AuthKeyChecks)
        ELSE IF form.action_id = "add_preauthkey"
        THEN addPreAuthKey(session, form, remote, apiOk, canGenerateAny, canGenerateOwn)
        ELSE IF form.action_id = "expire_preauthkey"
        THEN expirePreAuthKey(session, form, remote, apiOk, canGenerateAny, canGenerateOwn)
        ELSE Response(400, "Invalid action", FALSE, <<>>, TRUE, AuthKeyChecks)

\* formData.get(name) is a string: neither absent, nor empty, nor a File
isGivenString(value) == Truthy(value) /\ value # FILE

\* the action of the onboarding route
onboardingAction(session, form, apiOk) ==
    IF form.intent = "register-node"
    THEN IF ~isGivenString(form.nodeKey)
         THEN Response(400, "Node key is required", TRUE, <<>>, TRUE, <<>>)
         ELSE IF ~isGivenString(form.userId)
         THEN Response(400, "User is required", TRUE, <<>>, TRUE, <<>>)
         ELSE LET calls == <<ApiCall("registerNode", form.userId, <<form.nodeKey>>)>>
              IN  IF apiOk
                  THEN Response(200, "success", FALSE, calls, TRUE, <<>>)
                  ELSE Response(500, "Failed to register node", TRUE, calls, TRUE, <<>>)
    ELSE IF form.intent = "create-user"
    THEN IF ~isGivenString(form.username)
         THEN Response(400, "Username is required", TRUE, <<>>, TRUE, <<>>)
         ELSE LET calls == <<ApiCall("createUser", form.username, <<>>)>>
              IN  IF apiOk
                  THEN Response(200, "success", FALSE, calls, TRUE, <<>>)
                  ELSE Response(500, "Failed to create user", TRUE, calls, TRUE, <<>>)
    ELSE Response(400, "Invalid intent", TRUE, <<>>, TRUE, <<>>)

SessionSubjects == {<<"a">>, <<"b">>}
Sessions == {Session(r, s) : r \in RoleNames, s \in SessionSubjects}

TargetProviderIds == {undefined, <<"a">>, <<"a", "/", "a">>, <<"a", "/", "b">>}

\* the users Headscale lists when the action runs
RemoteUserLists ==
    UNION {{[i \in 1..n |-> HsUser(i, f[i])] : f \in [1..n -> TargetProviderIds]} :
           n \in 0..MaxHsUsers}

AuthKeyForm(action_id, user_id, acl_tags, expiry, reusable, ephemeral, key) ==
    [action_id |-> action_id, user_id |-> user_id, acl_tags |-> acl_tags,
     expiry |-> expiry, reusable |-> reusable, ephemeral |-> ephemeral, key |-> key]

SubmittedUserIds == {NULL, ""} \cup ValidUserIds
SubmittedAclTags == {undefined, <<",", " ">>, <<"b">>}
SubmittedExpiries == {undefined, <<"1", " ", "d">>}

AuthKeyForms ==
    {AuthKeyForm("add_preauthkey", u, tags, x, r, e, NULL) :
        u \in SubmittedUserIds, tags \in SubmittedAclTags, x \in SubmittedExpiries,
        r \in {NULL, "on", "off"}, e \in {NULL, "on"}}
    \cup {AuthKeyForm("expire_preauthkey", u, undefined, undefined, NULL, NULL, k) :
            u \in SubmittedUserIds, k \in {NULL, "k"}}
    \cup {AuthKeyForm(a, NULL, undefined, undefined, NULL, NULL, NULL) :
            a \in {NULL, "", "other"}}

OnboardingForm(intent, nodeKey, userId, username) ==
    [intent |-> intent, nodeKey |-> nodeKey, userId |-> userId, username |-> username]

FieldValues == {NULL, "", "v", FILE}

OnboardingForms ==
    {OnboardingForm("register-node", k, u, NULL) : k \in FieldValues, u \in FieldValues}
    \cup {OnboardingForm("create-user", NULL, NULL, n) : n \in FieldValues}
    \cup {OnboardingForm(i, NULL, NULL, NULL) : i \in {NULL, "other"}}

PendingAction(fn, session, form, remote, apiOk) ==
    [fn |-> fn, done |-> FALSE, session |-> session, form |-> form,
     remote |-> remote, apiOk |-> apiOk]

InitActions ==
    /\ IdleDb /\ IdleHist /\ IdleConc /\ IdleWritten /\ IdleHs
    /\ loader = NoCall /\ page = NoCall
    /\ \E session \in Sessions, apiOk \in BOOLEAN :
         \/ \E form \in AuthKeyForms, remote \in RemoteUserLists :
               call = PendingAction("authKeysAction", session, form, remote, apiOk)
         \/ \E form \in OnboardingForms :
               call = PendingAction("action", session, form, <<>>, apiOk)

Completed(result) ==
    [fn |-> call.fn, done |-> TRUE, session |-> call.session, form |-> call.form,
     remote |-> call.remote, apiOk |-> call.apiOk, result |-> result]

CallAuthKeysAction ==
    /\ call.fn = "authKeysAction" /\ ~call.done
    /\ call' = Completed(authKeysAction(call.session, call.form, call.remote, call.apiOk))
    /\ UNCHANGED pureFrame

CallOnboardingAction ==
    /\ call.fn = "action" /\ ~call.done
    /\ call' = Completed(onboardingAction(call.session, call.form, call.apiOk))
    /\ UNCHANGED pureFrame

NextActions == CallAuthKeysAction \/ CallOnboardingAction

SpecActions == InitActions /\ [][NextActions]_vars

Mutations == {"createPreAuthKey", "expirePreAuthKey", "registerNode", "createUser"}

MutationCalls == {i \in 1..Len(call.result.calls) : call.result.calls[i].op \in Mutations}

AuthKeysDone == call.fn = "authKeysAction" /\ call.done
OnboardingDone == call.fn = "action" /\ call.done

\* the session holds generate_own_authkeys but not generate_authkeys
SelfServiceSession ==
    /\ hasCapability(call.session.role, "generate_own_authkeys")
    /\ ~hasCapability(call.session.role, "generate_authkeys")

\* C23: createPreAuthKey, expirePreAuthKey, registerNode and createUser are
\* called only after the session's capabilities were consulted, and never for
\* a session whose bitmask is member (0).
C23_CapabilityBeforeMutation ==
    (call.fn \in {"authKeysAction", "action"} /\ call.done /\ MutationCalls # {}) =>
        /\ Len(call.result.checked) > 0
        /\ Roles[call.session.role] # 0

ForbiddenBody == "You do not have permission to manage pre-auth keys"

\* C25: a session with neither generate_authkeys nor generate_own_authkeys is
\* refused by authKeysAction with the one 403 body, before the form is read
\* and with no remote call.
C25_ForbiddenFirst ==
    (/\ AuthKeysDone
     /\ ~hasCapability(call.session.role, "generate_authkeys")
     /\ ~hasCapability(call.session.role, "generate_own_authkeys")) =>
        /\ call.result.status = 403
        /\ call.result.body = ForbiddenBody
        /\ ~call.result.formRead
        /\ call.result.calls = <<>>

\* a member submits a complete add_preauthkey form for an existing user
C25_Witness ==
    /\ AuthKeysDone
    /\ call.session.role = "member"
    /\ call.form.action_id = "add_preauthkey"
    /\ call.form.user_id = "1" /\ Len(call.remote) > 0
    /\ call.form.expiry # undefined /\ call.form.reusable = "on"
    /\ call.form.ephemeral = "on"
    /\ call.apiOk
    /\ call.result.status = 403

\* the request names a target user and passes the field checks that come
\* before the self-service check
ReachesTargetCheck ==
    \/ call.form.action_id = "add_preauthkey" /\ Truthy(call.form.user_id)
    \/ /\ call.form.action_id = "expire_preauthkey"
       /\ Truthy(call.form.user_id) /\ Truthy(call.form.key)

TargetUsers == {i \in 1..Len(call.remote) : call.remote[i].id = call.form.user_id}

OwnTargets ==
    {i \in TargetUsers : /\ call.remote[i].providerId # undefined
                         /\ AfterLastSlash(call.remote[i].providerId) = call.session.subject}

\* C26: for a session with generate_own_authkeys but not generate_authkeys,
\* createPreAuthKey with a user and expirePreAuthKey are called only when the
\* target user exists and the part of its providerId after the last "/" is
\* the session subject; a missing target gives 404, a foreign one 403, and
\* neither gives a remote mutation.
C26_OwnResourceOnly ==
    (AuthKeysDone /\ SelfServiceSession) =>
        /\ \A i \in MutationCalls :
              call.result.calls[i].user # NULL => OwnTargets # {}
        /\ (ReachesTargetCheck /\ call.apiOk) =>
              /\ TargetUsers = {} => call.result.status = 404 /\ MutationCalls = {}
              /\ (TargetUsers # {} /\ OwnTargets = {}) =>
                    call.result.status = 403 /\ MutationCalls = {}

\* an auditor asks to expire a key of another subject's user
C26_Witness ==
    /\ AuthKeysDone /\ SelfServiceSession
    /\ call.form.action_id = "expire_preauthkey"
    /\ ReachesTargetCheck /\ call.apiOk
    /\ TargetUsers # {} /\ OwnTargets = {}
    /\ \E i \in TargetUsers : call.remote[i].providerId # undefined
    /\ call.result.status = 403

\* C27: for a session with generate_own_authkeys but not generate_authkeys,
\* authKeysAction never calls createPreAuthKey with a null user.
C27_NoTagOnlyForSelfService ==
    (AuthKeysDone /\ SelfServiceSession) =>
        \A i \in MutationCalls :
            call.result.calls[i].op = "createPreAuthKey" => call.result.calls[i].user # NULL

Absent(value) == value = NULL \/ value = ""
AbsentChars(s) == s = undefined \/ s = <<>>
HasTag(s) == s # undefined /\ \E i \in 1..Len(s) : s[i] \notin {",", " "}

\* the form fails one of the validations of authKeysAction
InvalidAuthKeyForm ==
    \/ call.form.action_id \notin {"add_preauthkey", "expire_preauthkey"}
    \/ /\ call.form.action_id = "add_preauthkey"
       /\ \/ Absent(call.form.user_id) /\ ~HasTag(call.form.acl_tags)
          \/ AbsentChars(call.form.expiry)
          \/ Absent(call.form.reusable)
          \/ Absent(call.form.ephemeral)
    \/ /\ call.form.action_id = "expire_preauthkey"
       /\ Absent(call.form.key) \/ Absent(call.form.user_id)

\* the form fails one of the validations of the onboarding action
InvalidOnboardingForm ==
    \/ call.form.intent \notin {"register-node", "create-user"}
    \/ /\ call.form.intent = "register-node"
       /\ call.form.nodeKey \notin {"v"} \/ call.form.userId \notin {"v"}
    \/ call.form.intent = "create-user" /\ call.form.username \notin {"v"}

ValidationFailed ==
    \/ AuthKeysDone /\ InvalidAuthKeyForm
    \/ OnboardingDone /\ InvalidOnboardingForm

\* C28 as stated: a request that fails validation issues no createPreAuthKey,
\* expirePreAuthKey, registerNode or createUser call and ends in a 400 outcome.
C28_ValidationAlways400 ==
    ValidationFailed => MutationCalls = {} /\ call.result.status = 400

\* the request was ended by the capability check or by the self-service
\* target check before the failing validation was reached
RefusedBeforeValidation ==
    /\ AuthKeysDone
    /\ \/ call.result.status = 403 /\ ~call.result.formRead
       \/ /\ SelfServiceSession /\ ReachesTargetCheck
          /\ call.result.status \in {403, 404, 500}
          /\ Len(call.result.calls) = 1
          /\ call.result.calls[1].op = "getUsers"

\* C28 (amended): a request that fails validation issues no createPreAuthKey,
\* expirePreAuthKey, registerNode or createUser call; it ends in a 400
\* outcome unless the capability check or the self-service target check of
\* authKeysAction has ended it before the failing validation.
C28_ValidationNoSideEffect ==
    ValidationFailed =>
        /\ MutationCalls = {}
        /\ call.result.status = 400 \/ RefusedBeforeValidation
        /\ (call.result.status # 400 /\ SelfServiceSession /\ call.result.formRead) =>
              \/ ~call.apiOk
              \/ OwnTargets = {}

\* an owner submits add_preauthkey for a user without the expiry field
C28_Witness ==
    /\ AuthKeysDone
    /\ call.session.role = "owner"
    /\ call.form.action_id = "add_preauthkey"
    /\ call.form.user_id = "1"
    /\ call.form.expiry = undefined
    /\ call.form.reusable = "on" /\ call.form.ephemeral = "on"
    /\ call.apiOk
    /\ call.result.status = 400
    /\ call.result.calls = <<>>

====
